---- MODULE Spec2Model ----
(***************************************************************************)
(* Model of src/components/thunder-hole-tracker.tsx: the ThunderHoleTracker *)
(* React component (state tideData / loading / error, the mount effect with *)
(* its 30-minute interval, the Retry button, the asynchronous               *)
(* fetchNOAATideData) and its two calculation functions                     *)
(* getCurrentTideDirection and calculateThunderHoleTime.                    *)
(*                                                                         *)
(* Time is counted in minutes of local time (the source counts              *)
(* milliseconds); minute 0 is a local midnight.  hoursFromNow is kept as    *)
(* the number of minutes (the source divides the difference by one hour).   *)
(***************************************************************************)
EXTENDS Integers, Sequences, FiniteSets, TLC

VARIABLES
    tideData,      \* useState<TideData | null>(null), line 23
    loading,       \* useState(true), line 24
    error,         \* useState<string | null>(null), line 25
    phase,         \* "constructed" (rendered, effect not yet run), "mounted", "unmounted"
    interval,      \* TRUE while the setInterval of line 148 is armed
    inflight,      \* the fetchNOAATideData calls suspended at an await
    startLog,      \* what triggered each fetchNOAATideData call, in start order
    clock,           \* the wall clock (Date.now(), new Date())
    view,          \* what the last render displayed
    dataWriter,    \* history: id of the call whose setTideData made the current tideData object (0: the initial null)
    errorWriter,   \* history: id of the call that last called setError
    lastFailure,   \* history: dataWriter at the start and at the end of the last failed call
    latestOutcome, \* history: how the most recently started call ended
    calcTides,     \* input of the calculation functions
    calcNow,       \* input of the calculation functions
    direction,     \* result of getCurrentTideDirection(calcTides, calcNow)
    optimal        \* result of calculateThunderHoleTime(calcTides) at calcNow

vars == << tideData, loading, error, phase, interval, inflight, startLog, clock,
           view, dataWriter, errorWriter, lastFailure, latestOutcome, calcTides, calcNow, direction, optimal >>
compVars == << tideData, loading, error, phase, interval, inflight, startLog, clock,
               view, dataWriter, errorWriter, lastFailure, latestOutcome >>
calcVars == << calcTides, calcNow, direction, optimal >>

\* ------------------------------------------------------------------ bounds
\* Distance between two instants of the time grid, in minutes.
SlotMinutes == 180
\* Number of grid instants the calculation inputs are drawn from (1.5 days).
NumSlots == 12
\* Longest tide sequence handed to the calculation functions.
MaxTides == 3
\* Grid instants the service's prediction records are drawn from.
NumPredSlots == 2
\* Longest prediction list of a response.
MaxPreds == 2
\* Number of times the component's clock advances by one slot.
MaxClock == 1
\* Number of fetchNOAATideData calls started in one run.
MaxFetches == 2

\* ------------------------------------------------------------- time helpers
\* null and undefined where an object is expected, null where a string is
NULL == [ null |-> TRUE ]
UNDEFINED == [ undefined |-> TRUE ]
NullString == "null"

MinutesPerHour == 60
MinutesPerDay == 24 * MinutesPerHour

\* Date.prototype.toLocaleDateString: the calendar date of an instant.
toLocaleDateString(t) == t \div MinutesPerDay
\* Date.prototype.toLocaleTimeString([], {hour, minute}): hour and minute.
toLocaleTimeString(t) ==
    << (t % MinutesPerDay) \div MinutesPerHour, (t % MinutesPerDay) % MinutesPerHour >>
\* d = new Date(now); d.setHours(h, m, 0, 0): that time of day on now's date.
setHours(now, h, m) ==
    toLocaleDateString(now) * MinutesPerDay + h * MinutesPerHour + m

\* parseFloat(v).toFixed(1): v in thousandths of a foot, the result in tenths.
toFixed1(v) == IF v >= 0 THEN (v + 50) \div 100 ELSE -((50 - v) \div 100)

\* ------------------------------------------------------- the Tide records
\* One element of data.predictions.map(...), lines 63-69.
TideOf(prediction) ==
    [ time      |-> toLocaleTimeString(prediction.t),
      date      |-> toLocaleDateString(prediction.t),
      height    |-> toFixed1(prediction.v),
      type      |-> IF prediction.type = "H" THEN "High" ELSE "Low",
      timestamp |-> prediction.t ]

MapPredictions(predictions) ==
    [ i \in 1..Len(predictions) |-> TideOf(predictions[i]) ]

\* --------------------------------------------------- getCurrentTideDirection
FutureTides(tides, now) == SelectSeq(tides, LAMBDA tide : tide.timestamp > now)
PastTides(tides, now) == SelectSeq(tides, LAMBDA tide : tide.timestamp < now)

getCurrentTideDirection(tides, now) ==
    LET futureTides == FutureTides(tides, now)
        pastTides   == PastTides(tides, now)
    IN  IF Len(futureTides) < 2 THEN "Unknown"
        ELSE IF Len(pastTides) = 0 THEN "Unknown"
        ELSE IF futureTides[1].type = "High" THEN "Rising" ELSE "Falling"

\* -------------------------------------------------- calculateThunderHoleTime
sunrise(now) == setHours(now, 6, 0)
sunset(now) == setHours(now, 19, 30)

\* lines 124-128: 2 hours past a low tide, 3 hours past a high tide
thunderHoleTimeOf(tide) ==
    IF tide.type = "Low" THEN tide.timestamp + 2 * MinutesPerHour
    ELSE tide.timestamp + 3 * MinutesPerHour

\* line 131
Accepts(tide, now) ==
    /\ thunderHoleTimeOf(tide) > now
    /\ thunderHoleTimeOf(tide) >= sunrise(now)
    /\ thunderHoleTimeOf(tide) <= sunset(now)

\* lines 132-138
ThunderHoleResult(tide, now) ==
    [ time         |-> toLocaleTimeString(thunderHoleTimeOf(tide)),
      date         |-> toLocaleDateString(thunderHoleTimeOf(tide)),
      relatedTide  |-> tide,
      timestamp    |-> thunderHoleTimeOf(tide),
      hoursFromNow |-> thunderHoleTimeOf(tide) - now ]

\* A scan that gives up at the first event it does not accept.
RECURSIVE ScanStopAtSkip(_, _, _)
ScanStopAtSkip(tides, now, i) ==
    IF i > Len(tides) THEN NULL
    ELSE IF Accepts(tides[i], now) THEN ThunderHoleResult(tides[i], now)
    ELSE NULL

\* the for-of loop of lines 117-140, from element i on, and line 142
RECURSIVE ScanTides(_, _, _)
ScanTides(tides, now, i) ==
    IF i > Len(tides) THEN NULL
    ELSE IF Accepts(tides[i], now) THEN ThunderHoleResult(tides[i], now)
    ELSE ScanTides(tides, now, i + 1)

calculateThunderHoleTime(tides, now) == ScanTides(tides, now, 1)

\* ======================================================= the component
LOCATION == [ name |-> "Swan's Island, Maine", lat |-> 441539, lon |-> -684447,
              noaaStation |-> "8413825" ]

\* The values a failed request throws, and the message the catch block shows.
HttpError == [ instanceofError |-> TRUE, message |-> "NOAA API error: 500" ]
NetworkError == [ instanceofError |-> TRUE, message |-> "Failed to fetch" ]
PayloadError == [ instanceofError |-> TRUE, message |-> "No Predictions data was found" ]
ParseError == [ instanceofError |-> TRUE, message |-> "Cannot read properties of undefined" ]

\* lines 83-88
ErrorMessage(err) ==
    IF err.instanceofError THEN "Failed to fetch tide data: " \o err.message
    ELSE "Failed to fetch tide data: Unknown error"

\* tides.find(tide => tide.timestamp > now) || tides[0], line 79
FindNextTide(tides, t) ==
    IF Len(FutureTides(tides, t)) > 0 THEN FutureTides(tides, t)[1]
    ELSE IF Len(tides) > 0 THEN tides[1]
    ELSE UNDEFINED

\* the object handed to setTideData, lines 75-81
MakeTideData(predictions, t) ==
    LET tides == MapPredictions(predictions)
    IN  [ location    |-> LOCATION.name,
          coordinates |-> [ lat |-> LOCATION.lat, lon |-> LOCATION.lon ],
          tides       |-> tides,
          nextTide    |-> FindNextTide(tides, t),
          currentTide |-> getCurrentTideDirection(tides, t) ]

\* ---------------------------------------------------------------- render
\* A condition that shows the section whenever there is a dataset.
SectionShownWithData(td, ld) == td # NULL

\* {tideData && !loading && (...)}, line 234
SectionShown(td, ld) == td # NULL /\ ~ld

\* tideData.nextTide.type of line 292 throws a TypeError on an undefined nextTide
RenderThrows(td, ld) == SectionShown(td, ld) /\ td.nextTide = UNDEFINED

\* the content of the tide section, lines 235-310, rendered at instant t
SectionContent(td, t) ==
    [ thunderHoleTime |-> calculateThunderHoleTime(td.tides, t),
      currentTide     |-> td.currentTide,
      nextTide        |-> << td.nextTide.type, td.nextTide.time >>,
      schedule        |-> td.tides ]

\* which blocks of the JSX of lines 176-321 are displayed
Render(td, ld, er) ==
    [ status  |-> "rendered",
      loading |-> ld,
      error   |-> er,
      retry   |-> er # NullString,
      section |-> SectionShown(td, ld) ]

\* nothing of the component is displayed: the tree was torn down
Blank(status) ==
    [ status |-> status, loading |-> FALSE, error |-> NullString,
      retry |-> FALSE, section |-> FALSE ]

\* A clearInterval that leaves the timer armed.
clearIntervalNoop(iv) == iv

\* clearInterval(interval), line 149
clearInterval(iv) == FALSE

\* The state setters of a call running in lifecycle phase ph with timer iv:
\* ignored once the component is unmounted; otherwise the state is replaced
\* and the component renders again.  A render that throws unmounts the tree,
\* which runs the effect's cleanup.
Commit(ph, iv, td, ld, er) ==
    IF ph # "mounted"
    THEN /\ UNCHANGED << tideData, loading, error, view >>
         /\ phase' = ph
         /\ interval' = iv
    ELSE /\ tideData' = td
         /\ loading' = ld
         /\ error' = er
         /\ IF RenderThrows(td, ld)
            THEN /\ view' = Blank("crashed")
                 /\ phase' = "unmounted"
                 /\ interval' = clearInterval(iv)
            ELSE /\ view' = Render(td, ld, er)
                 /\ phase' = ph
                 /\ interval' = iv

\* --------------------------------------------------- fetchNOAATideData
\* lines 36-51: setLoading(true), setError(null), then suspend at await fetch(url)
StartFetch(trigger, ph, iv) ==
    /\ Len(startLog) < MaxFetches
    /\ startLog' = Append(startLog, trigger)
    /\ inflight' = inflight \cup
          { [ id |-> Len(startLog) + 1, pc |-> "fetch", startWriter |-> dataWriter ] }
    /\ latestOutcome' = NULL
    /\ Commit(ph, iv, tideData, TRUE, NullString)
    /\ errorWriter' = IF ph = "mounted" THEN Len(startLog) + 1 ELSE errorWriter
    /\ UNCHANGED << clock, dataWriter, lastFailure, calcVars >>

\* lines 83-91: the catch block and the finally block
FailFetch(f, err) ==
    /\ inflight' = inflight \ {f}
    /\ Commit(phase, interval, tideData, FALSE, ErrorMessage(err))
    /\ errorWriter' = IF phase = "mounted" THEN f.id ELSE errorWriter
    /\ lastFailure' = IF phase = "mounted"
                      THEN [ startWriter |-> f.startWriter, endWriter |-> dataWriter,
                             error |-> error', loading |-> loading' ]
                      ELSE lastFailure
    /\ latestOutcome' = IF f.id = Len(startLog) THEN [ ok |-> FALSE ] ELSE latestOutcome
    /\ UNCHANGED << startLog, clock, dataWriter, calcVars >>

\* useEffect, lines 145-148
Mount ==
    /\ phase = "constructed"
    /\ StartFetch("mount", "mounted", TRUE)

\* the setInterval callback, line 148.  Nothing bounds how long a call stays
\* suspended at an await (fetch has no timeout), so a tick, like a click on
\* Retry shortly before a tick, can come while an earlier call is suspended.
TimerTick ==
    /\ interval
    /\ StartFetch("timer", phase, interval)

\* onClick of the Retry button, lines 218-229
Retry ==
    /\ phase = "mounted"
    /\ view.retry
    /\ StartFetch("retry", phase, interval)

\* line 51 resumes with response.ok; the call suspends at await response.json()
ResponseOk ==
    \E f \in inflight :
        /\ f.pc = "fetch"
        /\ inflight' = (inflight \ {f}) \cup { [ f EXCEPT !.pc = "json" ] }
        /\ UNCHANGED << tideData, loading, error, phase, interval, startLog, clock,
                        view, dataWriter, errorWriter, lastFailure, latestOutcome, calcVars >>

\* line 51 rejects, or lines 53-55 throw on a response that is not ok
ResponseFails ==
    \E f \in inflight, err \in { HttpError, NetworkError } :
        /\ f.pc = "fetch"
        /\ FailFetch(f, err)

PredTimes == { k * SlotMinutes : k \in 1..NumPredSlots }
Predictions ==
    { [ t |-> t, v |-> IF ty = "H" THEN 9832 ELSE -214, type |-> ty ] :
        t \in PredTimes, ty \in { "H", "L" } }
\* The lists a response can carry: the records of distinct instants, in any order.
PredictionLists ==
    { l \in UNION { [ 1..n -> Predictions ] : n \in 0..MaxPreds } :
        \A i, j \in 1..Len(l) : i # j => l[i].t # l[j].t }

\* lines 57-81 and 89-91: a body with predictions
BodySucceeds ==
    \E f \in inflight, predictions \in PredictionLists :
        /\ f.pc = "json"
        /\ inflight' = inflight \ {f}
        /\ Commit(phase, interval, MakeTideData(predictions, clock), FALSE, error)
        /\ dataWriter' = IF phase = "mounted" THEN f.id ELSE dataWriter
        /\ latestOutcome' = IF f.id = Len(startLog) THEN [ ok |-> TRUE ] ELSE latestOutcome
        /\ UNCHANGED << startLog, clock, errorWriter, lastFailure, calcVars >>

\* lines 57-63: a body with an error payload, or one without predictions
BodyFails ==
    \E f \in inflight, err \in { PayloadError, ParseError } :
        /\ f.pc = "json"
        /\ FailFetch(f, err)

\* the cleanup of the effect, line 149
Unmount ==
    /\ phase = "mounted"
    /\ phase' = "unmounted"
    /\ interval' = clearInterval(interval)
    /\ view' = Blank("unmounted")
    /\ UNCHANGED << tideData, loading, error, inflight, startLog, clock,
                    dataWriter, errorWriter, lastFailure, latestOutcome, calcVars >>

AdvanceClock ==
    /\ clock < MaxClock * SlotMinutes
    /\ clock' = clock + SlotMinutes
    /\ UNCHANGED << tideData, loading, error, phase, interval, inflight, startLog,
                    view, dataWriter, errorWriter, lastFailure, latestOutcome, calcVars >>

\* the state after the first render, before the effect has run, lines 23-25
ComponentIdle ==
    /\ tideData = NULL
    /\ loading = TRUE
    /\ error = NullString
    /\ phase = "constructed"
    /\ interval = FALSE
    /\ inflight = {}
    /\ startLog = << >>
    /\ clock = 0
    /\ view = Render(NULL, TRUE, NullString)
    /\ dataWriter = 0
    /\ errorWriter = 0
    /\ lastFailure = NULL
    /\ latestOutcome = NULL

\* no calculation is being observed
CalcIdle ==
    /\ calcTides = << >>
    /\ calcNow = 0
    /\ direction = "pending"
    /\ optimal = [ pending |-> TRUE ]

Init == ComponentIdle /\ CalcIdle

Next ==
    \/ Mount
    \/ TimerTick
    \/ Retry
    \/ ResponseOk
    \/ ResponseFails
    \/ BodySucceeds
    \/ BodyFails
    \/ Unmount
    \/ AdvanceClock

Spec == Init /\ [][Next]_vars

\* ============================================ the calculation functions
\* The chronologically ordered tide sequences and the instants they are
\* evaluated at: events at distinct grid instants, oldest first.
CalcTimes == { k * SlotMinutes : k \in 0..(NumSlots - 1) }
CalcEvents ==
    { TideOf([ t |-> t, v |-> IF ty = "H" THEN 9832 ELSE -214, type |-> ty ]) :
        t \in CalcTimes, ty \in { "H", "L" } }
OrderedTideSeqs ==
    { s \in UNION { [ 1..n -> CalcEvents ] : n \in 0..MaxTides } :
        \A i \in 1..(Len(s) - 1) : s[i].timestamp < s[i + 1].timestamp }

CalcInit ==
    /\ ComponentIdle
    /\ calcTides \in OrderedTideSeqs
    /\ calcNow \in CalcTimes
    /\ direction = "pending"
    /\ optimal = [ pending |-> TRUE ]

\* a call getCurrentTideDirection(tides, now), line 73
Classify ==
    /\ direction = "pending"
    /\ direction' = getCurrentTideDirection(calcTides, calcNow)
    /\ UNCHANGED << compVars, calcTides, calcNow, optimal >>

\* a call calculateThunderHoleTime(tides) at instant now, line 243
Calculate ==
    /\ optimal = [ pending |-> TRUE ]
    /\ optimal' = calculateThunderHoleTime(calcTides, calcNow)
    /\ UNCHANGED << compVars, calcTides, calcNow, direction >>

CalcNext == Classify \/ Calculate

CalcSpec == CalcInit /\ [][CalcNext]_vars

\* ================================================================ claims
Classified == direction # "pending"
Calculated == optimal # [ pending |-> TRUE ]

\* The reference classifier of claim C1.
HasPast(tides, t) == \E i \in 1..Len(tides) : tides[i].timestamp < t
HasFuture(tides, t) == \E i \in 1..Len(tides) : tides[i].timestamp > t
NearestFuture(tides, t) ==
    CHOOSE e \in { tides[i] : i \in 1..Len(tides) } :
        /\ e.timestamp > t
        /\ \A i \in 1..Len(tides) :
              tides[i].timestamp > t => e.timestamp <= tides[i].timestamp
ReferenceDirection(tides, t) ==
    IF ~HasPast(tides, t) \/ ~HasFuture(tides, t) THEN "Unknown"
    ELSE IF NearestFuture(tides, t).type = "High" THEN "Rising" ELSE "Falling"

\* C1: for every chronologically ordered tide sequence and every instant,
\* getCurrentTideDirection returns what the reference classifier returns:
\* Unknown without a past or without a future event, otherwise Rising or
\* Falling by the kind of the nearest future event (also with one future event).
C1_DirectionMatchesReference ==
    Classified => direction = ReferenceDirection(calcTides, calcNow)

\* The candidate time of an event and the daylight window of the candidate's
\* own calendar date, as claims C2 and C3 state them.
CandidateOf(e) == e.timestamp + (IF e.type = "Low" THEN 120 ELSE 180)
MinuteOfDay(t) == t % 1440
InOwnDaylight(t) == MinuteOfDay(t) >= 360 /\ MinuteOfDay(t) <= 1170
Qualifies(e, t) == CandidateOf(e) > t /\ InOwnDaylight(CandidateOf(e))
SameDate(t, u) == t \div 1440 = u \div 1440

\* C2: calculateThunderHoleTime returns the first event in sequence order
\* whose candidate is strictly after now and inside 06:00-19:30 of the
\* candidate's own calendar date (also on a later day than now), with
\* hoursFromNow = candidate - now, and absent when there is none.
C2_FirstQualifyingOwnDate ==
    Calculated =>
        IF \E i \in 1..Len(calcTides) : Qualifies(calcTides[i], calcNow)
        THEN LET first == CHOOSE i \in 1..Len(calcTides) :
                            /\ Qualifies(calcTides[i], calcNow)
                            /\ \A j \in 1..(i - 1) : ~Qualifies(calcTides[j], calcNow)
             IN  /\ optimal # NULL
                 /\ optimal.relatedTide = calcTides[first]
                 /\ optimal.timestamp = CandidateOf(calcTides[first])
                 /\ optimal.hoursFromNow = CandidateOf(calcTides[first]) - calcNow
        ELSE optimal = NULL

\* C3: calculateThunderHoleTime returns a value for every sequence, the empty
\* one included; a result is the candidate of one of the given events, is
\* strictly after now and not after sunset; with no qualifying candidate the
\* result is absent; and an event that is skipped does not end the scan: a
\* qualifying candidate on now's date behind skipped events is still found.
C3_SkipsAndReportsAbsence ==
    Calculated =>
        /\ optimal # NULL =>
              \E i \in 1..Len(calcTides) :
                  /\ optimal.relatedTide = calcTides[i]
                  /\ optimal.timestamp = CandidateOf(calcTides[i])
                  /\ Qualifies(calcTides[i], calcNow)
        /\ (\A i \in 1..Len(calcTides) : ~Qualifies(calcTides[i], calcNow))
              => optimal = NULL
        /\ (\E i \in 1..Len(calcTides) :
                /\ Qualifies(calcTides[i], calcNow)
                /\ SameDate(CandidateOf(calcTides[i]), calcNow))
              => optimal # NULL

\* C3 witness: the first event's candidate is in the future but after sunset,
\* it was skipped, the scan went on, and no event qualified.
C3_Witness ==
    /\ Calculated
    /\ Len(calcTides) >= 2
    /\ CandidateOf(calcTides[1]) > calcNow
    /\ MinuteOfDay(CandidateOf(calcTides[1])) > 1170
    /\ optimal = NULL


\* ------------------------------------------------------- the component
Mounted == phase = "mounted"
AllFetchesDone == inflight = {} /\ Len(startLog) > 0

\* C4: at no reachable state are two fetchNOAATideData calls in flight.
C4_AtMostOneFetchInFlight == Cardinality(inflight) <= 1

\* C5: when a fetch has failed, tideData is the object it was when that fetch
\* started, error is a message and loading is false.
C5_FailureLeavesDataset ==
    lastFailure # NULL =>
        /\ lastFailure.endWriter = lastFailure.startWriter
        /\ lastFailure.error # NullString
        /\ ~lastFailure.loading

C7_TidesAscending ==
    tideData # NULL =>
        \A i, j \in 1..Len(tideData.tides) :
            i < j => tideData.tides[i].timestamp <= tideData.tides[j].timestamp

\* C8: once the widget is torn down, no timer-triggered fetch starts.
C8_NoTimerFetchAfterTeardown ==
    [][ phase = "unmounted" =>
          ~ ( /\ Len(startLog') > Len(startLog)
              /\ startLog'[Len(startLog')] = "timer" ) ]_vars

\* C8 witness: the cleanup has run while a fetch was suspended and the run
\* still has room for another fetch to start.
C8_Witness ==
    /\ phase = "unmounted"
    /\ view.status = "unmounted"
    /\ ~interval
    /\ inflight # {}
    /\ Len(startLog) < MaxFetches

\* C9: after every successful fetch tideData.nextTide is an element of
\* tideData.tides, for every prediction list including the empty one.
C9_NextTideIsAnElement ==
    tideData # NULL =>
        \E i \in 1..Len(tideData.tides) : tideData.nextTide = tideData.tides[i]

\* C10: loading is false only when no fetch is in flight, and once every
\* started fetch has completed the error indicator (and, if it succeeded, the
\* dataset) is the one written by the most recently started fetch.
C10_LatestStartedFetchWins ==
    Mounted =>
        /\ ~loading => inflight = {}
        /\ AllFetchesDone /\ latestOutcome # NULL =>
              /\ errorWriter = Len(startLog)
              /\ latestOutcome.ok => dataWriter = Len(startLog)

====
